---- MODULE Spec2Model ----
(***************************************************************************)
(* The rent-ledger engine of propmanager: the Express handlers of          *)
(* server/routes.ts (src/unnamed/part_003) over the tables of              *)
(* shared/schema.ts, reached through server/storage.ts.                    *)
(*                                                                         *)
(* Money is kept in hundredths (the decimal(12,2) columns), percentages in *)
(* hundredths of a percent (decimal(5,2)).  A table is the sequence of its *)
(* rows; the identity column of row i is i.                                *)
(***************************************************************************)
EXTENDS Integers, Sequences, FiniteSets, TLC

VARIABLES
  units,          \* table units
  tenants,        \* table tenants
  properties,     \* table properties
  propertyUsers,  \* table property_users
  invoices,       \* table rent_invoices
  payments,       \* table payments
  settlements,    \* table owner_settlements
  auditLogs,      \* table audit_logs
  now,            \* the server clock, what new Date() returns
  request,        \* the request being answered
  response,       \* the handler's answer to it
  steps,          \* requests served so far
  inFlight        \* the generate calls running side by side, by call number

vars == <<units, tenants, properties, propertyUsers, invoices, payments,
          settlements, auditLogs, now, request, response, steps, inFlight>>

-----------------------------------------------------------------------------
(* Bounds of the model *)

\* requests (and clock changes) in one run
MaxSteps == 3
\* generate calls that run side by side
MaxCalls == 2

-----------------------------------------------------------------------------
(* Program constants *)

\* decimal(_, 2): two fraction digits
Scale == 100
\* const sYear = startYear || 2015
DefaultStartYear == 2015
\* const sMonth = startMonth || 1
DefaultStartMonth == 1
\* const dueDay = tenant?.rentDueDay || 1
DefaultDueDay == 1
\* endMonth of a year that is not the current one
MonthsPerYear == 12

-----------------------------------------------------------------------------
(* JavaScript values of a request body *)

\* a field the body does not hold (undefined)
Absent == [kind |-> "absent", v |-> 0]
\* a JSON number; money and percentages in hundredths
Num(n) == [kind |-> "number", v |-> n]
\* a non-empty string that reads as a number, such as "500.00"
Str(n) == [kind |-> "string", v |-> n]
\* a string that holds text
Text(s) == [kind |-> "text", s |-> s]

\* what `x || d` and `!x` test
Truthy(x) ==
  \/ x.kind = "number" /\ x.v # 0
  \/ x.kind = "string"
  \/ x.kind = "text" /\ x.s # ""

OrElse(x, d) == IF Truthy(x) THEN x ELSE d

\* SQL NULL in a column of rows, of dates, of texts and of ids
Null == [kind |-> "null"]
NullText == "NULL"
NoId == 0

-----------------------------------------------------------------------------
(* Arithmetic *)

Abs(n) == IF n < 0 THEN 0 - n ELSE n

RECURSIVE GCD(_, _)
GCD(a, b) == IF b = 0 THEN a ELSE GCD(b, a % b)

\* floor of num/den for den > 0
FloorDiv(num, den) == num \div den

\* Math.round(num/den): the nearest integer, a half goes up
MathRound(num, den) == FloorDiv(2 * num + den, 2 * den)

\* the elements of a finite set of integers, ascending
RECURSIVE Ascending(_)
Ascending(S) ==
  IF S = {} THEN <<>>
  ELSE LET m == CHOOSE x \in S : \A y \in S : x <= y
       IN <<m>> \o Ascending(S \ {m})

Ids(table) == DOMAIN table

-----------------------------------------------------------------------------
(* The clock *)

\* an instant: a calendar day and whether any time has passed since its
\* midnight (tod = 0 is 00:00:00.000 exactly)
Instant(y, m, d, tod) == [year |-> y, month |-> m, day |-> d, tod |-> tod]

DateOf(t) == [year |-> t.year, month |-> t.month, day |-> t.day]

\* t > new Date(y, m - 1, d), the midnight that starts day d
After(t, y, m, d) ==
  \/ t.year > y
  \/ t.year = y /\ t.month > m
  \/ t.year = y /\ t.month = m /\ t.day > d
  \/ t.year = y /\ t.month = m /\ t.day = d /\ t.tod > 0

\* instant t comes after instant s
Later(t, s) ==
  \/ After(t, s.year, s.month, s.day + 1)
  \/ After(t, s.year, s.month, s.day) /\ s.tod = 0

-----------------------------------------------------------------------------
(* Storage *)

\* one request more, within the budget of the run, answered from start to end
\* while no other handler runs
Served == steps < MaxSteps /\ steps' = steps + 1 /\ UNCHANGED inFlight

\* storage.createAuditLog
AuditEntry(userId, action, tableName, recordId, oldValue, newValue) ==
  [userId |-> userId, action |-> action, tableName |-> tableName,
   recordId |-> recordId, oldValue |-> oldValue, newValue |-> newValue]

\* the entry put in front of the log
prependAuditLog(entry) == auditLogs' = <<entry>> \o auditLogs

createAuditLog(entry) == auditLogs' = Append(auditLogs, entry)

\* storage.getRentInvoicesByMonth
getRentInvoicesByMonth(month, year) ==
  {i \in Ids(invoices) : invoices[i].month = month /\ invoices[i].year = year}

\* storage.getTenantsByUnit
getTenantsByUnit(unitId) == {t \in Ids(tenants) : tenants[t].unitId = unitId}

\* storage.getUnits
getUnits(propertyId) == {u \in Ids(units) : units[u].propertyId = propertyId}

\* storage.getPropertyUsers
getPropertyUsers(propertyId) ==
  {p \in Ids(propertyUsers) : propertyUsers[p].propertyId = propertyId}

\* storage.getPropertyUser: the rows of a user on a property
getPropertyUser(userId, propertyId) ==
  {p \in Ids(propertyUsers) :
     propertyUsers[p].userId = userId /\ propertyUsers[p].propertyId = propertyId}

\* table users: the global role of each account
users ==
  <<[role |-> "super_admin"], [role |-> "property_owner"],
    [role |-> "co_owner"], [role |-> "accountant"]>>

\* a row of property_users as storage.createPropertyUser inserts it
PropertyUser(userId, propertyId, role, status, ownershipPercent) ==
  [userId |-> userId, propertyId |-> propertyId, role |-> role,
   status |-> status, ownershipPercent |-> ownershipPercent]

\* a row of rent_invoices as storage.createRentInvoice inserts it
InvoiceRow(tenantId, unitId, month, year, amount, receipt, historical) ==
  [tenantId |-> tenantId, unitId |-> unitId, month |-> month, year |-> year,
   amount |-> amount, status |-> "unpaid", paidAmount |-> 0,
   paidDate |-> Null, paymentMethod |-> NullText,
   receiptNumber |-> receipt, isHistorical |-> historical]

Receipt(prefix, year, month, id) ==
  [prefix |-> prefix, year |-> year, month |-> month, id |-> id]

-----------------------------------------------------------------------------
(* POST /api/invoices/generate *)

\* the set keyed by the invoices' units instead of their tenants
ExistingUnitIds(month, year) ==
  {invoices[i].unitId : i \in getRentInvoicesByMonth(month, year)}

\* new Set(existingInvoices.map(i => i.tenantId))
ExistingTenantIds(month, year) ==
  {invoices[i].tenantId : i \in getRentInvoicesByMonth(month, year)}

\* the loop without its `existingTenantIds.has(tenant.id)` test
GenerateForAll(month, year) ==
  {t \in Ids(tenants) :
     tenants[t].isActive = 1 /\ tenants[t].unitId \in Ids(units)}

\* the loop run over all tenants, the inactive ones too
GenerateForInactive(month, year) ==
  {t \in Ids(tenants) :
     /\ t \notin ExistingTenantIds(month, year)
     /\ tenants[t].unitId \in Ids(units)}

\* the tenants the loop creates an invoice for
GenerateFor(month, year) ==
  {t \in Ids(tenants) :
     /\ tenants[t].isActive = 1
     /\ t \notin ExistingTenantIds(month, year)
     /\ tenants[t].unitId \in Ids(units)}

GeneratedRows(month, year) ==
  LET order == Ascending(GenerateFor(month, year))
  IN [k \in 1..Len(order) |->
        LET t == order[k]
        IN InvoiceRow(t, tenants[t].unitId, month, year,
                      units[tenants[t].unitId].monthlyRent,
                      Receipt("INV", year, month, t), 0)]

GenerateInvoices(user, month, year) ==
  /\ Served
  /\ request' = [op |-> "generateInvoices", user |-> user,
                 month |-> month, year |-> year]
  /\ IF ~Truthy(month) \/ ~Truthy(year)
     THEN /\ response' = [status |-> 400]
          /\ UNCHANGED invoices
     ELSE LET created == GeneratedRows(month.v, year.v)
          IN /\ invoices' = invoices \o created
             /\ response' = [status |-> 201, generated |-> Len(created),
                             invoices |-> {Len(invoices) + k : k \in 1..Len(created)}]
  /\ UNCHANGED <<units, tenants, properties, propertyUsers, payments,
                 settlements, auditLogs, now>>

-----------------------------------------------------------------------------
(* POST /api/units/:unitId/reconstruct-history *)

\* parseFloat of a numeric body value
parseFloat(x) == x.v

\* the rate compounded the wrong way: rent * (1 + rate)
MultiplyByGrowth(num, den, pct) ==
  LET n == num * (Scale * Scale + pct)
      d == den * (Scale * Scale)
      g == GCD(n, d)
  IN [num |-> n \div g, den |-> d \div g]

\* rent / (1 + rate) as the fraction num/den in lowest terms, the rate being
\* pct hundredths of a percent
DivideByGrowth(num, den, pct) ==
  LET f == GCD(Scale * Scale, Scale * Scale + pct)
      n == num * ((Scale * Scale) \div f)
      d == den * ((Scale * Scale + pct) \div f)
      g == GCD(n, d)
  IN [num |-> n \div g, den |-> d \div g]

\* the loop that fills yearlyRents, from year y down to sYear; num/den is
\* the value of `rent`, acc the list so far
RECURSIVE YearlyRentsLoop(_, _, _, _, _, _)
YearlyRentsLoop(y, sYear, num, den, pct, acc) ==
  IF y < sYear THEN acc
  ELSE LET unshifted == <<[year |-> y, rent |-> MathRound(num, den)]>> \o acc
           next == DivideByGrowth(num, den, pct)
       IN IF y > sYear
          THEN YearlyRentsLoop(y - 1, sYear, next.num, next.den, pct, unshifted)
          ELSE unshifted

YearlyRents(currentRent, pct, sYear, currentYear) ==
  LET g == GCD(currentRent, Scale)
  IN YearlyRentsLoop(currentYear, sYear, currentRent \div g, Scale \div g,
                     pct, <<>>)

\* every year begun in January, the first one too
MonthsOfWholeYears(year, sYear, sMonth, currentYear, currentMonth) ==
  1..(IF year = currentYear THEN currentMonth ELSE MonthsPerYear)

\* the months the inner loop visits in one entry of yearlyRents
MonthsOf(year, sYear, sMonth, currentYear, currentMonth) ==
  LET endMonth == IF year = currentYear THEN currentMonth ELSE MonthsPerYear
      beginMonth == IF year = sYear THEN sMonth ELSE 1
  IN beginMonth..endMonth

PeriodKey(year, month) == year * MonthsPerYear + (month - 1)
KeyYear(k) == k \div MonthsPerYear
KeyMonth(k) == (k % MonthsPerYear) + 1

\* the lookup comparing the invoice's tenant with the unit
AlreadyExistsByTenant(unitId, month, year) ==
  \E i \in getRentInvoicesByMonth(month, year) : invoices[i].tenantId = unitId

\* existing.find(inv => inv.unitId === unitId)
AlreadyExists(unitId, month, year) ==
  \E i \in getRentInvoicesByMonth(month, year) : invoices[i].unitId = unitId

\* row 0 taken whether active or not
AttributableAny(unitId) == getTenantsByUnit(unitId)

\* tenantsByUnit.find(t => t.isActive === 1) || tenantsByUnit[0]: the rows
\* come in no stated order, so any active tenant may be found first and,
\* with none active, any tenant may be row 0
Attributable(unitId) ==
  LET all == getTenantsByUnit(unitId)
      active == {t \in all : tenants[t].isActive = 1}
  IN IF active # {} THEN active ELSE all

\* the periods the call inserts an invoice for, as keys
ReconstructKeys(unitId, yearlyRents, sYear, sMonth) ==
  UNION {{PeriodKey(yearlyRents[k].year, m) :
            m \in MonthsOf(yearlyRents[k].year, sYear, sMonth,
                           now.year, now.month)} :
         k \in DOMAIN yearlyRents}

ReconstructedRows(unitId, yearlyRents, sYear, sMonth, tenantId) ==
  LET keys == {k \in ReconstructKeys(unitId, yearlyRents, sYear, sMonth) :
                 ~AlreadyExists(unitId, KeyMonth(k), KeyYear(k))}
      order == IF tenantId = NoId THEN <<>> ELSE Ascending(keys)
      rentOf(y) == yearlyRents[y - yearlyRents[1].year + 1].rent
  IN [j \in 1..Len(order) |->
        InvoiceRow(tenantId, unitId, KeyMonth(order[j]), KeyYear(order[j]),
                   rentOf(KeyYear(order[j])) * Scale,
                   Receipt("HIST", KeyYear(order[j]), KeyMonth(order[j]), unitId),
                   1)]

\* tenantId: the tenant the lookup attributes the invoices to, NoId when the
\* unit has no tenant
ReconstructHistory(user, unitId, currentRent, yearlyIncreasePercent, startYear, startMonth, tenantId) ==
  /\ Served
  /\ request' = [op |-> "reconstructHistory", user |-> user, unitId |-> unitId,
                 currentRent |-> currentRent,
                 yearlyIncreasePercent |-> yearlyIncreasePercent,
                 startYear |-> startYear, startMonth |-> startMonth,
                 at |-> now]
  /\ IF ~Truthy(currentRent) \/ ~Truthy(yearlyIncreasePercent)
     THEN /\ response' = [status |-> 400]
          /\ tenantId = NoId
          /\ UNCHANGED <<invoices, auditLogs>>
     ELSE IF unitId \notin Ids(units)
     THEN /\ response' = [status |-> 404]
          /\ tenantId = NoId
          /\ UNCHANGED <<invoices, auditLogs>>
     ELSE LET sYear == OrElse(startYear, Num(DefaultStartYear)).v
              sMonth == OrElse(startMonth, Num(DefaultStartMonth)).v
              yearlyRents == YearlyRents(parseFloat(currentRent),
                                         parseFloat(yearlyIncreasePercent),
                                         sYear, now.year)
              created == ReconstructedRows(unitId, yearlyRents, sYear, sMonth,
                                           tenantId)
          IN /\ IF Attributable(unitId) = {}
                THEN tenantId = NoId
                ELSE tenantId \in Attributable(unitId)
             /\ invoices' = invoices \o created
             /\ createAuditLog(AuditEntry(user, "reconstruct_history",
                  "rent_invoices", unitId, Null,
                  [currentRent |-> currentRent,
                   yearlyIncreasePercent |-> yearlyIncreasePercent,
                   startYear |-> sYear, records |-> Len(created)]))
             /\ response' = [status |-> 201, generated |-> Len(created),
                             yearlyRents |-> yearlyRents,
                             invoices |-> {Len(invoices) + k : k \in 1..Len(created)}]
  /\ UNCHANGED <<units, tenants, properties, propertyUsers, payments,
                 settlements, now>>

-----------------------------------------------------------------------------
(* POST /api/invoices/:id/pay *)

\* the total itself refused as an overpayment
AmountRefusedFromTotal(paid, total) == paid < 0 \/ paid >= total

\* the two tests that answer 400
AmountRefused(paid, total) == paid < 0 \/ paid > total

\* tenant?.rentDueDay || 1
DueDay(tenantId) ==
  IF tenantId \in Ids(tenants) /\ tenants[tenantId].rentDueDay # 0
  THEN tenants[tenantId].rentDueDay
  ELSE DefaultDueDay

\* the status the handler decides on
PayStatus(invoice, paid, total) ==
  IF paid >= total
  THEN IF After(now, invoice.year, invoice.month, DueDay(invoice.tenantId))
       THEN "late"
       ELSE "paid"
  ELSE "partial"

\* the refusal written to the audit log like a payment
PayRefusedAudited(status) ==
  /\ response' = [status |-> status]
  /\ createAuditLog(AuditEntry(NoId, "mark_payment", "rent_invoices", NoId,
                               Null, [status |-> status]))
  /\ UNCHANGED invoices

\* return res.status(...).json({message}) before anything is written
PayRefused(status) ==
  /\ response' = [status |-> status]
  /\ UNCHANGED <<invoices, auditLogs>>

PayInvoice(user, id, paidAmount, paymentMethod) ==
  /\ Served
  /\ request' = [op |-> "payInvoice", user |-> user, id |-> id,
                 paidAmount |-> paidAmount, paymentMethod |-> paymentMethod,
                 at |-> now]
  /\ IF id \notin Ids(invoices)
     THEN PayRefused(404)
     ELSE LET invoice == invoices[id]
              paid == parseFloat(OrElse(paidAmount, Str(invoice.amount)))
              total == invoice.amount
          IN IF AmountRefused(paid, total)
             THEN PayRefused(400)
             ELSE LET status == PayStatus(invoice, paid, total)
                      updated ==
                        [invoice EXCEPT
                           !.status = status,
                           !.paidAmount = paid,
                           !.paidDate = DateOf(now),
                           !.paymentMethod =
                              OrElse(paymentMethod, Text("cash")).s]
                  IN /\ invoices' = [invoices EXCEPT ![id] = updated]
                     /\ createAuditLog(AuditEntry(user, "mark_payment",
                          "rent_invoices", id,
                          [status |-> invoice.status,
                           paidAmount |-> invoice.paidAmount],
                          [status |-> status, paidAmount |-> paid]))
                     /\ response' = [status |-> 200, invoice |-> updated]
  /\ UNCHANGED <<units, tenants, properties, propertyUsers, payments,
                 settlements, now>>

-----------------------------------------------------------------------------
(* POST /api/payments *)

\* a difference of exactly one unit let through
AmountMatchUpToOne(invoiceAmount, paymentAmount) ==
  Abs(invoiceAmount - paymentAmount) <= 1 * Scale

\* Math.abs(parseFloat(inv.amount) - parseFloat(payment.amount)) < 1
AmountMatch(invoiceAmount, paymentAmount) ==
  Abs(invoiceAmount - paymentAmount) < 1 * Scale

\* the invoices the find() callback accepts
MatchCandidates(paymentAmount) ==
  {i \in Ids(invoices) :
     /\ invoices[i].status # "paid"
     /\ AmountMatch(invoices[i].amount, paymentAmount)}

\* the invoices read oldest period first
OldestCandidates(paymentAmount) ==
  {i \in MatchCandidates(paymentAmount) :
     \A j \in MatchCandidates(paymentAmount) :
       PeriodKey(invoices[i].year, invoices[i].month)
         <= PeriodKey(invoices[j].year, invoices[j].month)}

\* storage.getRentInvoices orders by year and month, both descending; the
\* first candidate is one of the latest period, whichever of them the
\* database returns first
FirstCandidates(paymentAmount) ==
  {i \in MatchCandidates(paymentAmount) :
     \A j \in MatchCandidates(paymentAmount) :
       PeriodKey(invoices[i].year, invoices[i].month)
         >= PeriodKey(invoices[j].year, invoices[j].month)}

\* the status derived from the amounts, as payInvoice derives it
MatchedInvoiceByAmount(invoice, payment) ==
  [invoice EXCEPT
     !.status = IF payment.amount >= invoice.amount THEN "paid" ELSE "partial",
     !.paidAmount = payment.amount,
     !.paidDate = payment.date]

\* the invoice settled at what it bills instead of what was received
MatchedInvoiceInFull(invoice, payment) ==
  [invoice EXCEPT !.status = "paid", !.paidAmount = invoice.amount,
                  !.paidDate = payment.date]

\* storage.updateRentInvoice(match.id, {status, paidAmount, paidDate})
MatchedInvoice(invoice, payment) ==
  [invoice EXCEPT !.status = "paid", !.paidAmount = payment.amount,
                  !.paidDate = payment.date]

\* match: the invoice find() returns, NoId when it returns none
RecordPayment(user, amount, date, tenantName, match) ==
  /\ Served
  /\ request' = [op |-> "recordPayment", user |-> user, amount |-> amount,
                 date |-> date, tenantName |-> tenantName]
  /\ IF amount.kind # "string"
     THEN \* insertPaymentSchema wants the decimal as a string
          /\ response' = [status |-> 400]
          /\ match = NoId
          /\ UNCHANGED <<invoices, payments, auditLogs>>
     ELSE LET id == Len(payments) + 1
              payment == [amount |-> parseFloat(amount), date |-> date,
                          tenantName |-> tenantName, status |-> "unmatched",
                          matchedInvoiceId |-> NoId]
              searched == Truthy(amount) /\ Truthy(tenantName)
              found == IF searched THEN FirstCandidates(payment.amount) ELSE {}
              final == IF match = NoId THEN payment
                       ELSE [payment EXCEPT !.status = "matched",
                                            !.matchedInvoiceId = match]
          IN /\ IF found = {} THEN match = NoId ELSE match \in found
             /\ payments' = Append(payments, final)
             /\ invoices' =
                  IF match = NoId THEN invoices
                  ELSE [invoices EXCEPT ![match] = MatchedInvoice(@, payment)]
             /\ createAuditLog(AuditEntry(user, "add_payment", "payments", id,
                                          Null, final))
             /\ response' = [status |-> 201, payment |-> final]
  /\ UNCHANGED <<units, tenants, properties, propertyUsers, settlements, now>>

-----------------------------------------------------------------------------
(* POST /api/properties/:propertyId/calculate-settlements *)

\* the billed amounts summed instead of the collected ones
RECURSIVE SumBilled(_)
SumBilled(S) ==
  IF S = {} THEN 0
  ELSE LET i == CHOOSE x \in S : TRUE
       IN invoices[i].amount + SumBilled(S \ {i})

\* propertyInvoices.reduce((sum, inv) => sum + parseFloat(inv.paidAmount))
RECURSIVE SumPaid(_)
SumPaid(S) ==
  IF S = {} THEN 0
  ELSE LET i == CHOOSE x \in S : TRUE
       IN invoices[i].paidAmount + SumPaid(S \ {i})

\* every approved row counted, whatever its role
ApprovedUsers(propertyId) ==
  {o \in getPropertyUsers(propertyId) : propertyUsers[o].status = "approved"}

\* owners.filter(o => o.status === "approved" && (o.role === ...))
ApprovedOwners(propertyId) ==
  {o \in getPropertyUsers(propertyId) :
     /\ propertyUsers[o].status = "approved"
     /\ propertyUsers[o].role \in {"property_owner", "co_owner"}}

\* the orders in which a select without ORDER BY may return the rows S
Orders(S) ==
  {f \in [1..Cardinality(S) -> S] :
     \A i, j \in 1..Cardinality(S) : i # j => f[i] # f[j]}

\* String((totalRent * percent) / 100) as a numeric(12,2) column stores it:
\* the hundredth nearest to the product; on a tie the digits of the double
\* decide.  totalRent is in hundredths, percent in hundredths of a percent.
StoredShares(totalRent, percent) ==
  LET exact == totalRent * percent
      unit == Scale * Scale
      floor == FloorDiv(exact, unit)
  IN {c \in {floor, floor + 1} : 2 * Abs(c * unit - exact) <= unit}

\* the sum the handler calls totalRent
TotalRent(propertyId, month, year) ==
  SumPaid({i \in getRentInvoicesByMonth(month, year) :
             invoices[i].unitId \in getUnits(propertyId)})

\* what the rows of one call may store as the owners' shares
SharesOf(propertyId, totalRent) ==
  LET owners == ApprovedOwners(propertyId)
      stored(o) == StoredShares(totalRent, propertyUsers[o].ownershipPercent)
  IN {f \in [owners -> UNION {stored(o) : o \in owners}] :
        \A o \in owners : f[o] \in stored(o)}

\* a row of owner_settlements as storage.createOwnerSettlement inserts it
SettlementRow(propertyId, userId, month, year, totalRent, share) ==
  [propertyId |-> propertyId, userId |-> userId, month |-> month,
   year |-> year, totalRent |-> totalRent, ownerShare |-> share,
   amountDistributed |-> 0, balance |-> share]

\* the rows of a period written over the rows an earlier run left for it
replaceOwnerSettlements(rows) ==
  LET SameKey(a, b) ==
        /\ a.propertyId = b.propertyId /\ a.userId = b.userId
        /\ a.month = b.month /\ a.year = b.year
      Kept(r) == \A k \in DOMAIN rows : ~SameKey(r, rows[k])
  IN SelectSeq(settlements, Kept) \o rows

\* storage.createOwnerSettlement, once for each row in turn
createOwnerSettlements(rows) == settlements \o rows

\* order: the order the owners are read in; shares: what each row stores
CalculateSettlements(user, propertyId, month, year, order, shares) ==
  /\ Served
  /\ request' = [op |-> "calculateSettlements", user |-> user,
                 propertyId |-> propertyId, month |-> month, year |-> year]
  /\ LET totalRent == TotalRent(propertyId, month, year)
         rows == [k \in DOMAIN order |->
                    SettlementRow(propertyId, propertyUsers[order[k]].userId,
                                  month, year, totalRent, shares[order[k]])]
     IN /\ order \in Orders(ApprovedOwners(propertyId))
        /\ shares \in SharesOf(propertyId, totalRent)
        /\ settlements' = createOwnerSettlements(rows)
        /\ response' = [status |-> 201, settlements |-> rows]
  /\ UNCHANGED <<units, tenants, properties, propertyUsers, invoices,
                 payments, auditLogs, now>>

-----------------------------------------------------------------------------
(* Properties and access to them *)

\* super_admin, or the approved property_owner row of the user.  A user has
\* at most one row per property: request-access refuses a second one.
userIsPropertyOwner(userId, userRole, propertyId) ==
  \/ userRole = "super_admin"
  \/ \E p \in getPropertyUser(userId, propertyId) :
       /\ propertyUsers[p].status = "approved"
       /\ propertyUsers[p].role = "property_owner"

\* POST /api/properties; name stands for the body insertPropertySchema parses
CreateProperty(user, name) ==
  /\ Served
  /\ request' = [op |-> "createProperty", user |-> user, name |-> name]
  /\ IF ~Truthy(name)
     THEN /\ response' = [status |-> 400]
          /\ UNCHANGED <<properties, propertyUsers, auditLogs>>
     ELSE LET id == Len(properties) + 1
              property == [createdById |-> user]
          IN /\ properties' = Append(properties, property)
             /\ propertyUsers' =
                  Append(propertyUsers,
                         PropertyUser(user, id, "property_owner", "approved",
                                      100 * Scale))
             /\ createAuditLog(AuditEntry(user, "create_property",
                                          "properties", id, Null, property))
             /\ response' = [status |-> 201, id |-> id]
  /\ UNCHANGED <<units, tenants, invoices, payments, settlements, now>>

\* POST /api/properties/:propertyId/request-access
RequestAccess(user, propertyId, role, ownershipPercent) ==
  /\ Served
  /\ request' = [op |-> "requestAccess", user |-> user,
                 propertyId |-> propertyId, role |-> role,
                 ownershipPercent |-> ownershipPercent]
  /\ IF getPropertyUser(user, propertyId) # {}
     THEN /\ response' = [status |-> 409]
          /\ UNCHANGED propertyUsers
     ELSE IF propertyId \notin Ids(properties)
     THEN \* the insert breaks the foreign key on properties.id
          /\ response' = [status |-> 500]
          /\ UNCHANGED propertyUsers
     ELSE /\ propertyUsers' =
               Append(propertyUsers,
                      PropertyUser(user, propertyId,
                                   OrElse(role, Text("co_owner")).s, "pending",
                                   parseFloat(OrElse(ownershipPercent,
                                                     Str(0)))))
          /\ response' = [status |-> 201, id |-> Len(propertyUsers) + 1]
  /\ UNCHANGED <<units, tenants, properties, invoices, payments, settlements,
                 auditLogs, now>>

\* PATCH /api/property-users/:id/approve
ApproveAccess(user, puId) ==
  /\ Served
  /\ request' = [op |-> "approveAccess", user |-> user, id |-> puId]
  /\ IF puId \notin Ids(propertyUsers)
     THEN /\ response' = [status |-> 404]
          /\ UNCHANGED <<propertyUsers, auditLogs>>
     ELSE IF ~userIsPropertyOwner(user, users[user].role,
                                  propertyUsers[puId].propertyId)
     THEN /\ response' = [status |-> 403]
          /\ UNCHANGED <<propertyUsers, auditLogs>>
     ELSE LET pu == [propertyUsers[puId] EXCEPT !.status = "approved"]
          IN /\ propertyUsers' = [propertyUsers EXCEPT ![puId] = pu]
             /\ createAuditLog(AuditEntry(user, "approve_access",
                                          "property_users", puId, Null, pu))
             /\ response' = [status |-> 200, id |-> puId]
  /\ UNCHANGED <<units, tenants, properties, invoices, payments, settlements,
                 now>>

\* PATCH /api/property-users/:id/reject
RejectAccess(user, puId) ==
  /\ Served
  /\ request' = [op |-> "rejectAccess", user |-> user, id |-> puId]
  /\ IF puId \notin Ids(propertyUsers)
     THEN /\ response' = [status |-> 404]
          /\ UNCHANGED propertyUsers
     ELSE IF ~userIsPropertyOwner(user, users[user].role,
                                  propertyUsers[puId].propertyId)
     THEN /\ response' = [status |-> 403]
          /\ UNCHANGED propertyUsers
     ELSE /\ propertyUsers' =
               [propertyUsers EXCEPT ![puId].status = "rejected"]
          /\ response' = [status |-> 200, id |-> puId]
  /\ UNCHANGED <<units, tenants, properties, invoices, payments, settlements,
                 auditLogs, now>>

\* the values insertPropertyUserSchema.partial() accepts for a field the body
\* may leave out
AccessStatuses == {"pending", "approved", "rejected"}
UserRoles ==
  {"super_admin", "property_owner", "co_owner", "accountant", "tenant"}

\* PATCH /api/property-users/:id; status and role are the fields of the body,
\* at least one of them present.  The handler asks for a logged-in user and
\* nothing more.
UpdatePropertyUser(user, puId, status, role) ==
  /\ Served
  /\ request' = [op |-> "updatePropertyUser", user |-> user, id |-> puId,
                 status |-> status, role |-> role]
  /\ IF \/ (Truthy(status) /\ status.s \notin AccessStatuses)
        \/ (Truthy(role) /\ role.s \notin UserRoles)
     THEN /\ response' = [status |-> 400]
          /\ UNCHANGED propertyUsers
     ELSE IF puId \notin Ids(propertyUsers)
     THEN /\ response' = [status |-> 404]
          /\ UNCHANGED propertyUsers
     ELSE /\ propertyUsers' =
               [propertyUsers EXCEPT
                  ![puId].status = IF Truthy(status) THEN status.s ELSE @,
                  ![puId].role = IF Truthy(role) THEN role.s ELSE @]
          /\ response' = [status |-> 200, id |-> puId]
  /\ UNCHANGED <<units, tenants, properties, invoices, payments, settlements,
                 auditLogs, now>>

-----------------------------------------------------------------------------
(* PATCH /api/units/:id *)

\* what the handler does to tables units and audit_logs for a body that
\* insertUnitSchema.partial() accepts
UnitUpdated(user, id, monthlyRent) ==
  IF id \notin Ids(units)
  THEN /\ response' = [status |-> 404]
       /\ UNCHANGED <<units, auditLogs>>
  ELSE LET old == units[id]
           unit == [old EXCEPT !.monthlyRent = parseFloat(monthlyRent)]
       IN /\ units' = [units EXCEPT ![id] = unit]
          /\ createAuditLog(AuditEntry(user, "update_unit", "units", id,
                                       old, unit))
          /\ response' = [status |-> 200, unit |-> unit]

\* the new rent carried over to the unit's invoices that are not settled yet
UpdateUnitRepricing(user, id, monthlyRent) ==
  /\ Served
  /\ request' = [op |-> "updateUnit", user |-> user, id |-> id,
                 monthlyRent |-> monthlyRent]
  /\ UnitUpdated(user, id, monthlyRent)
  /\ invoices' = [i \in Ids(invoices) |->
                    IF invoices[i].unitId = id /\ invoices[i].status = "unpaid"
                    THEN [invoices[i] EXCEPT !.amount = parseFloat(monthlyRent)]
                    ELSE invoices[i]]
  /\ UNCHANGED <<tenants, properties, propertyUsers, payments, settlements,
                 now>>

UpdateUnit(user, id, monthlyRent) ==
  /\ Served
  /\ request' = [op |-> "updateUnit", user |-> user, id |-> id,
                 monthlyRent |-> monthlyRent]
  /\ IF monthlyRent.kind # "string"
     THEN \* insertUnitSchema wants the decimal as a string
          /\ response' = [status |-> 400]
          /\ UNCHANGED <<units, auditLogs>>
     ELSE UnitUpdated(user, id, monthlyRent)
  /\ UNCHANGED <<tenants, properties, propertyUsers, invoices, payments,
                 settlements, now>>

-----------------------------------------------------------------------------
(* POST /api/invoices/generate, await by await: calls that run side by side
   interleave at the handler's awaits *)

\* getTenants, filter, getRentInvoicesByMonth: the call reads the active
\* tenants and the tenants invoiced in the period, and keeps both
GenerateRead(c, user, month, year) ==
  /\ inFlight[c].pc = "idle"
  /\ inFlight' = [inFlight EXCEPT ![c] =
       [pc |-> "loop", user |-> user, month |-> month, year |-> year,
        activeTenants |->
          Ascending({t \in Ids(tenants) : tenants[t].isActive = 1}),
        existingTenantIds |-> ExistingTenantIds(month, year),
        created |-> {}]]
  /\ UNCHANGED <<units, tenants, properties, propertyUsers, invoices,
                 payments, settlements, auditLogs, now, request, response,
                 steps>>

\* one turn of the loop: the next tenant skipped when the set the call read
\* holds it or its unit is gone, invoiced otherwise
GenerateInsert(c) ==
  /\ inFlight[c].pc = "loop"
  /\ inFlight[c].activeTenants # <<>>
  /\ LET call == inFlight[c]
         t == Head(call.activeTenants)
         skipped == \/ t \in call.existingTenantIds
                    \/ tenants[t].unitId \notin Ids(units)
         invoice == InvoiceRow(t, tenants[t].unitId, call.month, call.year,
                               units[tenants[t].unitId].monthlyRent,
                               Receipt("INV", call.year, call.month, t), 0)
     IN /\ invoices' = IF skipped THEN invoices ELSE Append(invoices, invoice)
        /\ inFlight' = [inFlight EXCEPT ![c] =
             [call EXCEPT !.activeTenants = Tail(call.activeTenants),
                          !.created = IF skipped THEN @
                                      ELSE @ \cup {Len(invoices) + 1}]]
  /\ UNCHANGED <<units, tenants, properties, propertyUsers, payments,
                 settlements, auditLogs, now, request, response, steps>>

\* res.status(201).json({generated, invoices})
GenerateRespond(c) ==
  /\ inFlight[c].pc = "loop"
  /\ inFlight[c].activeTenants = <<>>
  /\ request' = [op |-> "generateInvoices", user |-> inFlight[c].user,
                 month |-> Num(inFlight[c].month),
                 year |-> Num(inFlight[c].year)]
  /\ response' = [status |-> 201,
                  generated |-> Cardinality(inFlight[c].created),
                  invoices |-> inFlight[c].created]
  /\ inFlight' = [inFlight EXCEPT ![c] = [pc |-> "done"]]
  /\ UNCHANGED <<units, tenants, properties, propertyUsers, invoices,
                 payments, settlements, auditLogs, now, steps>>

-----------------------------------------------------------------------------
(* The clock moves on between requests *)

SetClock(t) ==
  /\ Served
  /\ Later(t, now)
  /\ now' = t
  /\ UNCHANGED <<units, tenants, properties, propertyUsers, invoices, payments,
                 settlements, auditLogs, request, response>>

-----------------------------------------------------------------------------
(* The data the runs start from: rows that POST /api/properties, /api/units
   and /api/tenants have inserted; no invoice, payment, settlement or audit
   entry of the engine yet *)

\* the account whose session sends the ledger requests
Clerk == 2

UnitRows ==
  <<[propertyId |-> 1, monthlyRent |-> 100000],
    [propertyId |-> 2, monthlyRent |-> 80050]>>

Tenant(unitId, rentDueDay, isActive) ==
  [unitId |-> unitId, rentDueDay |-> rentDueDay, isActive |-> isActive]

\* one tenant a unit; two active tenants sharing unit 1; a lease succession on
\* unit 1 with unit 2 empty
TenantWorlds ==
  { <<Tenant(1, 5, 1), Tenant(2, 1, 1)>>,
    <<Tenant(1, 5, 1), Tenant(1, 1, 1), Tenant(2, 1, 0)>>,
    <<Tenant(1, 5, 0), Tenant(1, 5, 1)>> }

PropertyRows == <<[createdById |-> 2], [createdById |-> 2]>>

PropertyUserRows ==
  <<PropertyUser(2, 1, "property_owner", "approved", 6000),
    PropertyUser(3, 1, "co_owner", "approved", 3333),
    PropertyUser(4, 1, "accountant", "approved", 500),
    PropertyUser(1, 1, "co_owner", "pending", 1000),
    PropertyUser(2, 2, "property_owner", "approved", 10000),
    PropertyUser(3, 2, "co_owner", "rejected", 5000)>>

\* a call number no handler runs under
Idle == [pc |-> "idle"]

NoRequest == [op |-> "none"]
NoResponse == [status |-> 0]

InitClocks == {Instant(2016, 1, 5, 0), Instant(2016, 1, 5, 1)}

InitLedger ==
  /\ units = UnitRows
  /\ tenants \in TenantWorlds
  /\ properties = PropertyRows
  /\ propertyUsers = PropertyUserRows
  /\ invoices = <<>>
  /\ payments = <<>>
  /\ settlements = <<>>
  /\ auditLogs = <<>>
  /\ now \in InitClocks
  /\ request = NoRequest
  /\ response = NoResponse
  /\ steps = 0
  /\ inFlight = [c \in 1..MaxCalls |-> Idle]

-----------------------------------------------------------------------------
(* Invoice generation and history reconstruction alone *)

GenerateInputs ==
  { <<Num(1), Num(2016)>>, <<Num(2), Num(2016)>>, <<Absent, Num(2016)>>,
    <<Num(1), Absent>> }

\* <<unitId, currentRent, yearlyIncreasePercent, startYear, startMonth>>
ReconstructInputs ==
  { <<1, Str(100050), Str(1000), Num(2014), Num(11)>>,
    <<1, Str(100000), Str(750), Num(2016), Absent>>,
    <<2, Str(100050), Str(1000), Absent, Absent>>,
    <<2, Str(4500000), Str(1000), Num(2013), Num(12)>>,
    <<2, Str(100000), Str(1000), Num(2017), Absent>>,
    <<1, Absent, Str(1000), Absent, Absent>>,
    <<1, Str(100000), Num(0), Absent, Absent>>,
    <<3, Str(100000), Str(1000), Absent, Absent>> }

GenClocks == {Instant(2016, 2, 1, 1), Instant(2017, 1, 1, 1)}

NextGen ==
  \/ \E in \in GenerateInputs : GenerateInvoices(Clerk, in[1], in[2])
  \/ \E in \in ReconstructInputs, t \in Ids(tenants) \cup {NoId} :
       ReconstructHistory(Clerk, in[1], in[2], in[3], in[4], in[5], t)
  \/ \E t \in GenClocks : SetClock(t)

SpecGen == InitLedger /\ [][NextGen]_vars

-----------------------------------------------------------------------------
(* Properties of invoice generation and history reconstruction *)

SamePeriod(i, j) ==
  invoices[i].month = invoices[j].month /\ invoices[i].year = invoices[j].year

ActiveTenantsOf(unitId) ==
  {t \in getTenantsByUnit(unitId) : tenants[t].isActive = 1}

\* C1: a generateInvoices request that repeats the period of the request
\* answered before it, with no other write in between, creates no invoice
\* and reports generated = 0.
C1_GenerateIdempotent ==
  [][(/\ request.op = "generateInvoices"
      /\ response.status = 201
      /\ request'.op = "generateInvoices"
      /\ request'.month = request.month
      /\ request'.year = request.year
      /\ steps' = steps + 1
      /\ now' = now)
     => (response'.generated = 0 /\ invoices' = invoices)]_vars

\* the second of two generateInvoices requests for a period the first one
\* invoiced
C1_Witness ==
  /\ steps = 2
  /\ request.op = "generateInvoices"
  /\ response.status = 201
  /\ response.generated = 0
  /\ Len(invoices) > 0
  /\ \A i \in Ids(invoices) :
       /\ invoices[i].receiptNumber.prefix = "INV"
       /\ invoices[i].month = request.month.v
       /\ invoices[i].year = request.year.v

\* the first year of the list a reconstructHistory request asks for
RequestedStartYear ==
  IF request.startYear = Absent THEN DefaultStartYear ELSE request.startYear.v

\* C4: for a positive currentRent, a positive yearlyIncreasePercent and a
\* start year not after the current year, yearlyRents holds one entry a year
\* from the start year to the current year, ascending, its rents never
\* decrease, and the current year's rent is currentRent rounded to a whole
\* unit.
C4_YearlyRents ==
  (/\ request.op = "reconstructHistory"
   /\ response.status = 201
   /\ request.currentRent.v > 0
   /\ request.yearlyIncreasePercent.v > 0
   /\ RequestedStartYear <= request.at.year)
  => LET list == response.yearlyRents
         n == Len(list)
     IN /\ n = request.at.year - RequestedStartYear + 1
        /\ \A k \in 1..n : list[k].year = RequestedStartYear + k - 1
        /\ \A k \in 1..(n - 1) : list[k].rent <= list[k + 1].rent
        /\ 2 * Abs(list[n].rent * Scale - request.currentRent.v) <= Scale

\* a list of four years whose rents grow
C4_Witness ==
  /\ request.op = "reconstructHistory"
  /\ response.status = 201
  /\ Len(response.yearlyRents) >= 4
  /\ response.yearlyRents[1].rent < response.yearlyRents[2].rent
  /\ request.currentRent.v % Scale # 0

\* C5: a reconstructHistory request that repeats the parameters of the
\* request answered before it, at the same clock and with no other write in
\* between, creates no invoice.
C5_ReconstructIdempotent ==
  [][(/\ request.op = "reconstructHistory"
      /\ response.status = 201
      /\ request' = request
      /\ steps' = steps + 1
      /\ now' = now)
     => (response'.generated = 0 /\ invoices' = invoices)]_vars

\* the second of two identical reconstructHistory requests, the first of which
\* filled the unit's months
C5_Witness ==
  /\ steps = 2
  /\ request.op = "reconstructHistory"
  /\ response.status = 201
  /\ response.generated = 0
  /\ Len(auditLogs) = 2
  /\ auditLogs[1].newValue.records > 0
  /\ auditLogs[1].recordId = request.unitId
  /\ request.at = now

\* C8 as stated: at most one invoice per (unitId, month, year), also when a
\* unit has more than one active tenant.
C8_OnePerUnitPeriod ==
  \A i, j \in Ids(invoices) :
    (invoices[i].unitId = invoices[j].unitId /\ SamePeriod(i, j)) => i = j

\* C8 as amended: at most one invoice per (tenantId, month, year), and at
\* most one per (unitId, month, year) for every unit with at most one active
\* tenant.
C8_OnePerTenantPeriod ==
  \A i, j \in Ids(invoices) :
    /\ (invoices[i].tenantId = invoices[j].tenantId /\ SamePeriod(i, j))
         => i = j
    /\ (/\ invoices[i].unitId = invoices[j].unitId
        /\ SamePeriod(i, j)
        /\ Cardinality(ActiveTenantsOf(invoices[i].unitId)) <= 1)
         => i = j

\* a unit with one active tenant, reconstructed and then generated for
C8_Witness ==
  /\ request.op = "generateInvoices"
  /\ response.status = 201
  /\ \E i \in Ids(invoices) :
       /\ invoices[i].receiptNumber.prefix = "HIST"
       /\ invoices[i].month = request.month.v
       /\ invoices[i].year = request.year.v
       /\ Cardinality(ActiveTenantsOf(invoices[i].unitId)) = 1

-----------------------------------------------------------------------------
(* Invoice generation, payment of an invoice and incoming payments *)

PeriodInputs == {<<Num(1), Num(2016)>>, <<Num(2), Num(2016)>>}

\* <<paidAmount, paymentMethod>> for an invoice of the given amount
PayInputs(total) ==
  { <<Absent, Absent>>, <<Str(total), Text("bank_transfer")>>,
    <<Str(total - 1), Absent>>, <<Str(total + 1), Absent>>,
    <<Str(0 - 1), Absent>>, <<Str(0), Text("cash")>>, <<Num(0), Absent>> }

AmountOf(id) == IF id \in Ids(invoices) THEN invoices[id].amount ELSE 100000

PayIds == {1, 2, 9}

\* <<amount, tenantName>>
PaymentInputs ==
  { <<Str(100000 - 50), Text("Ahmed Khan")>>,
    <<Str(100000 - 100), Text("Ahmed Khan")>>,
    <<Str(80050 + 99), Text("Nobody")>>,
    <<Str(100000), Absent>>,
    <<Str(80050), Text("")>>,
    <<Num(100000), Text("Ahmed Khan")>> }

PaymentDate == [year |-> 2016, month |-> 1, day |-> 3]

PayClocks == {Instant(2016, 1, 6, 0), Instant(2016, 2, 1, 1)}

NextPay ==
  \/ \E in \in PeriodInputs : GenerateInvoices(Clerk, in[1], in[2])
  \/ \E id \in PayIds : \E in \in PayInputs(AmountOf(id)) :
       PayInvoice(Clerk, id, in[1], in[2])
  \/ \E in \in PaymentInputs, match \in Ids(invoices) \cup {NoId} :
       RecordPayment(Clerk, in[1], PaymentDate, in[2], match)
  \/ \E t \in PayClocks : SetClock(t)

SpecPay == InitLedger /\ [][NextPay]_vars

-----------------------------------------------------------------------------
(* Properties of payInvoice and recordPayment *)

\* the request was a payInvoice for an invoice that exists, with a
\* paidAmount supplied
PaidWithAmount ==
  /\ request.op = "payInvoice"
  /\ request.id \in Ids(invoices)
  /\ request.paidAmount # Absent

\* C2: for an existing invoice of amount A, payInvoice answers InvalidAmount
\* (400) when the supplied paidAmount is below 0 or above A, and succeeds
\* for every supplied paidAmount in [0, A].
C2_AmountBounds ==
  PaidWithAmount =>
    LET A == invoices[request.id].amount
        p == request.paidAmount.v
    IN /\ (p < 0 \/ p > A) => response.status = 400
       /\ (0 <= p /\ p <= A) => response.status = 200

\* an invoice paid one hundredth short of its amount, then a payment of one
\* hundredth more than the amount refused and the invoice left as it was
C2_Witness ==
  /\ PaidWithAmount
  /\ request.paidAmount.v = invoices[request.id].amount + 1
  /\ response.status = 400
  /\ invoices[request.id].status = "partial"
  /\ invoices[request.id].paidAmount = invoices[request.id].amount - 1

\* the calendar day of instant t is day d of month m of year y, or earlier
OnOrBefore(t, y, m, d) ==
  \/ t.year < y
  \/ t.year = y /\ t.month < m
  \/ t.year = y /\ t.month = m /\ t.day <= d

\* C3: a successful payInvoice of the full amount made on or before day D
\* (the tenant's due day) of the invoice's month yields paid, one made after
\* day D yields late, and one of less than the amount yields partial.
\* Stated for amounts that JavaScript does not treat as omitted.
C3_StatusDerivation ==
  (PaidWithAmount /\ Truthy(request.paidAmount) /\ response.status = 200) =>
    LET inv == invoices[request.id]
        p == request.paidAmount.v
        D == tenants[inv.tenantId].rentDueDay
    IN /\ (p = inv.amount /\ OnOrBefore(request.at, inv.year, inv.month, D))
            => inv.status = "paid"
       /\ (p = inv.amount /\ ~OnOrBefore(request.at, inv.year, inv.month, D))
            => inv.status = "late"
       /\ p < inv.amount => inv.status = "partial"

\* the new row of table payments, after a recordPayment that inserted one
NewPayment == payments'[Len(payments')]

\* C7: a recordPayment with a non-empty amount and tenantName marks the
\* payment matched exactly when some invoice whose status is not paid has an
\* amount less than 1 away from the payment's; with no such invoice the
\* payment stays unmatched, has no matchedInvoiceId, and no invoice changes.
C7_MatchTolerance ==
  [][(/\ request'.op = "recordPayment"
      /\ Len(payments') = Len(payments) + 1
      /\ Truthy(request'.amount)
      /\ Truthy(request'.tenantName))
     => LET outstanding ==
              \E i \in Ids(invoices) :
                /\ invoices[i].status # "paid"
                /\ Abs(invoices[i].amount - request'.amount.v) < Scale
        IN /\ NewPayment.status = "matched" <=> outstanding
           /\ ~outstanding =>
                /\ NewPayment.status = "unmatched"
                /\ NewPayment.matchedInvoiceId = NoId
                /\ invoices' = invoices]_vars

\* a payment half a unit short of an invoice matched to it under a name that
\* no tenant carries, and one a whole unit short left unmatched
C7_Witness ==
  /\ Len(payments) = 2
  /\ payments[1].status = "unmatched"
  /\ payments[1].amount = 100000 - 100
  /\ payments[2].status = "matched"
  /\ payments[2].tenantName = Text("Nobody")
  /\ invoices[payments[2].matchedInvoiceId].amount # payments[2].amount

-----------------------------------------------------------------------------
(* Runs of the settlement engine: invoices generated, paid, and settled *)

SettleAmounts(total) == {Absent, Str(total - 1), Str(50)}

PropertyIds == {1, 2}

NextSettle ==
  \/ \E in \in PeriodInputs : GenerateInvoices(Clerk, in[1], in[2])
  \/ \E id \in {1, 2} : \E paid \in SettleAmounts(AmountOf(id)) :
       PayInvoice(Clerk, id, paid, Absent)
  \/ \E propertyId \in PropertyIds : \E in \in PeriodInputs :
       \E order \in Orders(ApprovedOwners(propertyId)) :
         \E shares \in SharesOf(propertyId,
                                TotalRent(propertyId, in[1].v, in[2].v)) :
           CalculateSettlements(Clerk, propertyId, in[1].v, in[2].v,
                                order, shares)

SpecSettle == InitLedger /\ [][NextSettle]_vars

-----------------------------------------------------------------------------
(* Properties of calculateSettlements *)

\* the rows a step appended to table owner_settlements
NewSettlements ==
  SubSeq(settlements', Len(settlements) + 1, Len(settlements'))

\* the PropertyUser rows of the property that hold an approved owner role
QualifyingOwners(propertyId) ==
  {o \in Ids(propertyUsers) :
     /\ propertyUsers[o].propertyId = propertyId
     /\ propertyUsers[o].status = "approved"
     /\ propertyUsers[o].role \in {"property_owner", "co_owner"}}

\* the step inserts one row per qualifying owner and no other, each with
\* nothing distributed and a share that satisfies Share(row, percent)
SettledBy(Share(_, _)) ==
  request'.op = "calculateSettlements" =>
    LET owners == QualifyingOwners(request'.propertyId)
        new == NewSettlements
    IN /\ Len(new) = Cardinality(owners)
       /\ \A o \in owners :
            Cardinality({k \in DOMAIN new :
                           new[k].userId = propertyUsers[o].userId}) = 1
       /\ \A k \in DOMAIN new :
            /\ new[k].propertyId = request'.propertyId
            /\ new[k].month = request'.month
            /\ new[k].year = request'.year
            /\ new[k].amountDistributed = 0
            /\ new[k].balance = new[k].ownerShare
            /\ \E o \in owners :
                 /\ propertyUsers[o].userId = new[k].userId
                 /\ Share(new[k], propertyUsers[o].ownershipPercent)

\* ownerShare = totalRent * ownershipPercent / 100, exactly
ExactShare(row, percent) ==
  row.ownerShare * Scale * Scale = row.totalRent * percent

\* ownerShare is totalRent * ownershipPercent / 100 rounded to the nearest
\* hundredth
RoundedShare(row, percent) ==
  2 * Abs(row.ownerShare * Scale * Scale - row.totalRent * percent)
    <= Scale * Scale

\* C6 as stated: calculateSettlements inserts exactly one row for each
\* approved property_owner or co_owner row of the property and none for any
\* other, each with ownerShare = totalRent * ownershipPercent / 100,
\* amountDistributed = 0 and balance = ownerShare.
C6_ExactShares == [][SettledBy(ExactShare)]_vars

\* C6, amended: calculateSettlements inserts exactly one row for each
\* approved property_owner or co_owner row of the property and none for any
\* other, each with ownerShare = totalRent * ownershipPercent / 100 rounded
\* to two fraction digits, amountDistributed = 0 and balance = ownerShare.
C6_RoundedShares == [][SettledBy(RoundedShare)]_vars

\* a property with a pending and an accountant row settled for its two
\* owners, 999.99 collected, the 33.33 % owner credited 333.30
C6_Witness ==
  /\ request.op = "calculateSettlements"
  /\ request.propertyId = 1
  /\ Len(settlements) = 2
  /\ \E k \in Ids(settlements) :
       /\ settlements[k].userId = 3
       /\ settlements[k].totalRent = 99999
       /\ settlements[k].ownerShare = 33330
       /\ settlements[k].balance = 33330

-----------------------------------------------------------------------------
(* Runs of property creation and access requests, from empty tables *)

InitEmpty ==
  /\ units = <<>>
  /\ tenants = <<>>
  /\ properties = <<>>
  /\ propertyUsers = <<>>
  /\ invoices = <<>>
  /\ payments = <<>>
  /\ settlements = <<>>
  /\ auditLogs = <<>>
  /\ now \in InitClocks
  /\ request = NoRequest
  /\ response = NoResponse
  /\ steps = 0
  /\ inFlight = [c \in 1..MaxCalls |-> Idle]

\* the role and ownershipPercent of a request-access body
AccessInputs ==
  { <<Absent, Absent>>, <<Absent, Str(50 * Scale)>>,
    <<Text("accountant"), Str(25 * Scale)>> }

\* the status and role of a PATCH /api/property-users/:id body
UpdateInputs ==
  { <<Text("approved"), Absent>>, <<Absent, Text("accountant")>>,
    <<Text("granted"), Absent>> }

NextAccess ==
  \/ \E user \in {2, 3} : \E name \in {Text("Plaza"), Absent} :
       CreateProperty(user, name)
  \/ \E user \in {1, 3, 4} : \E propertyId \in {1, 2} : \E in \in AccessInputs :
       RequestAccess(user, propertyId, in[1], in[2])
  \/ \E user \in {1, 2, 3} : \E puId \in {1, 2, 3} : ApproveAccess(user, puId)
  \/ \E user \in {1, 2, 3} : \E puId \in {1, 2, 3} : RejectAccess(user, puId)
  \/ \E user \in {3, 4} : \E puId \in {1, 2, 3} : \E in \in UpdateInputs :
       UpdatePropertyUser(user, puId, in[1], in[2])

SpecAccess == InitEmpty /\ [][NextAccess]_vars

\* the approved owner rows of a property
OwnerRows(propertyId) ==
  {p \in Ids(propertyUsers) :
     /\ propertyUsers[p].propertyId = propertyId
     /\ propertyUsers[p].status = "approved"
     /\ propertyUsers[p].role \in {"property_owner", "co_owner"}}

RECURSIVE SumPercent(_)
SumPercent(S) ==
  IF S = {} THEN 0
  ELSE LET p == CHOOSE x \in S : TRUE
       IN propertyUsers[p].ownershipPercent + SumPercent(S \ {p})

\* C9: after any sequence of property creation, access request, approve and
\* reject operations, the ownershipPercent of the approved property_owner
\* and co_owner rows of each property sums to at most 100.
C9_OwnershipAtMost100 ==
  \A propertyId \in Ids(properties) :
    SumPercent(OwnerRows(propertyId)) <= 100 * Scale

-----------------------------------------------------------------------------
(* Every operation together *)

Init == InitLedger

Next ==
  \/ \E in \in {<<Num(1), Num(2016)>>, <<Absent, Num(2016)>>} :
       GenerateInvoices(Clerk, in[1], in[2])
  \/ \E in \in {<<1, Str(100000), Str(750), Num(2016), Absent>>,
                <<2, Str(100050), Str(1000), Num(2015), Num(12)>>} :
       \E t \in Ids(tenants) \cup {NoId} :
         ReconstructHistory(Clerk, in[1], in[2], in[3], in[4], in[5], t)
  \/ \E paid \in {Absent, Str(50), Str(0 - 1)} :
       PayInvoice(Clerk, 1, paid, Text("bank"))
  \/ \E amount \in {Str(100000 - 50), Str(5)} :
       \E match \in Ids(invoices) \cup {NoId} :
         RecordPayment(Clerk, amount, PaymentDate, Text("Ahmed Khan"), match)
  \/ \E order \in Orders(ApprovedOwners(1)) :
       \E shares \in SharesOf(1, TotalRent(1, 1, 2016)) :
         CalculateSettlements(Clerk, 1, 1, 2016, order, shares)
  \/ \E name \in {Text("Plaza"), Absent} : CreateProperty(3, name)
  \/ \E propertyId \in {2, 3} :
       RequestAccess(4, propertyId, Absent, Str(50 * Scale))
  \/ \E user \in {2, 3} : \E puId \in {4, 7} : ApproveAccess(user, puId)
  \/ \E user \in {2, 3} : RejectAccess(user, 4)
  \/ SetClock(Instant(2016, 2, 1, 1))

Spec == Init /\ [][Next]_vars

\* C10: the audit log is append-only: every step of every operation leaves
\* each entry already written where it is, with all its fields, so that the
\* sequence of entries only grows at its end.
C10_AuditAppendOnly ==
  [][/\ Len(auditLogs') >= Len(auditLogs)
     /\ SubSeq(auditLogs', 1, Len(auditLogs)) = auditLogs]_vars

\* three entries written by three different operations, in their order
C10_Witness ==
  /\ Len(auditLogs) = 3
  /\ auditLogs[1].action = "reconstruct_history"
  /\ auditLogs[2].action = "mark_payment"
  /\ auditLogs[3].action = "approve_access"

-----------------------------------------------------------------------------
(* Runs of rent changes between generation and reconstruction *)

RentInputs == {Str(120000), Str(80050), Num(90000)}

NextRent ==
  \/ \E id \in {1, 2, 3} : \E monthlyRent \in RentInputs :
       UpdateUnit(Clerk, id, monthlyRent)
  \/ \E in \in PeriodInputs : GenerateInvoices(Clerk, in[1], in[2])
  \/ \E in \in {<<1, Str(100000), Str(750), Num(2016), Absent>>,
                <<2, Str(100050), Str(1000), Num(2015), Num(12)>>} :
       \E t \in Ids(tenants) \cup {NoId} :
         ReconstructHistory(Clerk, in[1], in[2], in[3], in[4], in[5], t)
  \/ \E t \in GenClocks : SetClock(t)

SpecRent == InitLedger /\ [][NextRent]_vars

\* C11: a change of a unit's monthlyRent leaves the amount of every invoice
\* that exists unchanged, and so does every later generateInvoices or
\* reconstructHistory, also for a period the unit is already invoiced for:
\* no step removes an invoice or changes its amount.
C11_AmountsKept ==
  [][\A i \in Ids(invoices) :
       /\ i \in Ids(invoices')
       /\ invoices'[i].amount = invoices[i].amount]_vars

\* a unit invoiced at 1000.00, its rent then raised to 1200.00, and the same
\* period generated again: nothing created, the invoice still at 1000.00
C11_Witness ==
  /\ request.op = "generateInvoices"
  /\ response.status = 201
  /\ response.generated = 0
  /\ \E i \in Ids(invoices) :
       /\ invoices[i].month = request.month.v
       /\ invoices[i].year = request.year.v
       /\ invoices[i].unitId = 1
       /\ invoices[i].amount = 100000
       /\ units[1].monthlyRent = 120000
  /\ \E e \in Ids(auditLogs) : auditLogs[e].action = "update_unit"

-----------------------------------------------------------------------------
(* Further properties of calculateSettlements *)

\* what invoice i adds to the rent collected for a property in a period
Collected(i, propertyId, month, year) ==
  IF /\ invoices[i].month = month
     /\ invoices[i].year = year
     /\ invoices[i].unitId \in Ids(units)
     /\ units[invoices[i].unitId].propertyId = propertyId
  THEN invoices[i].paidAmount
  ELSE 0

\* the rent collected over the first n rows of table rent_invoices
RECURSIVE CollectedUpTo(_, _, _, _)
CollectedUpTo(n, propertyId, month, year) ==
  IF n = 0 THEN 0
  ELSE Collected(n, propertyId, month, year)
         + CollectedUpTo(n - 1, propertyId, month, year)

\* C12: the totalRent of every row that calculateSettlements(propertyId,
\* month, year) creates is the sum of paidAmount over exactly the invoices of
\* that month and year whose unit belongs to the property; billed amounts
\* and the invoices of other properties or periods add nothing.
C12_TotalIsCollected ==
  [][request'.op = "calculateSettlements" =>
       \A k \in DOMAIN NewSettlements :
         NewSettlements[k].totalRent =
           CollectedUpTo(Len(invoices), request'.propertyId, request'.month,
                         request'.year)]_vars

\* property 1 settled on 0.50 collected of 1000.00 billed, while another
\* property holds an invoice of the same period
C12_Witness ==
  /\ request.op = "calculateSettlements"
  /\ request.propertyId = 1
  /\ \E k \in Ids(settlements) : settlements[k].totalRent = 50
  /\ \E i \in Ids(invoices) :
       /\ invoices[i].unitId = 1
       /\ invoices[i].amount = 100000
       /\ invoices[i].paidAmount = 50
  /\ \E i \in Ids(invoices) :
       /\ invoices[i].unitId = 2
       /\ invoices[i].month = request.month
       /\ invoices[i].year = request.year

\* the rows of table t settled for a user of a property in a period
RowsFor(t, propertyId, userId, month, year) ==
  {k \in DOMAIN t :
     /\ t[k].propertyId = propertyId /\ t[k].userId = userId
     /\ t[k].month = month /\ t[k].year = year}

\* C13: every run of calculateSettlements for a (property, month, year)
\* adds one settlement row for each qualifying owner to those the earlier
\* runs left, and updates or removes none of them; k runs with unchanged
\* owners so leave k rows per qualifying owner.
C13_NoUpsert ==
  [][request'.op = "calculateSettlements" =>
       /\ Len(settlements') >= Len(settlements)
       /\ SubSeq(settlements', 1, Len(settlements)) = settlements
       /\ \A o \in QualifyingOwners(request'.propertyId) :
            Cardinality(RowsFor(settlements', request'.propertyId,
                                propertyUsers[o].userId, request'.month,
                                request'.year))
              = Cardinality(RowsFor(settlements, request'.propertyId,
                                    propertyUsers[o].userId, request'.month,
                                    request'.year)) + 1]_vars

\* three runs for property 1 and January 2016: three rows for each of its
\* two owners
C13_Witness ==
  /\ request.op = "calculateSettlements"
  /\ Len(settlements) = 6
  /\ \A u \in {2, 3} : Cardinality(RowsFor(settlements, 1, u, 1, 2016)) = 3

-----------------------------------------------------------------------------
(* Further properties of recordPayment *)

\* the invoices a payment of the given amount can be matched to
Outstanding(amount) ==
  {i \in Ids(invoices) :
     /\ invoices[i].status # "paid"
     /\ Abs(invoices[i].amount - amount) < Scale}

\* the step is a recordPayment that looked for a match and had one to find
MatchFound ==
  /\ request'.op = "recordPayment"
  /\ Len(payments') = Len(payments) + 1
  /\ Truthy(request'.amount)
  /\ Truthy(request'.tenantName)
  /\ Outstanding(request'.amount.v) # {}

\* C14: when recordPayment finds a match, the payment gets status matched
\* and the matched invoice's id, that invoice gets status paid, the
\* payment's amount as paidAmount and the payment's date as paidDate, and
\* every other invoice and every other payment stays as it was.
C14_MatchEffects ==
  [][MatchFound =>
       \E m \in Outstanding(request'.amount.v) :
         /\ NewPayment.status = "matched"
         /\ NewPayment.matchedInvoiceId = m
         /\ NewPayment.amount = request'.amount.v
         /\ NewPayment.date = request'.date
         /\ invoices'[m].status = "paid"
         /\ invoices'[m].paidAmount = NewPayment.amount
         /\ invoices'[m].paidDate = NewPayment.date
         /\ Len(invoices') = Len(invoices)
         /\ \A i \in Ids(invoices) \ {m} : invoices'[i] = invoices[i]
         /\ SubSeq(payments', 1, Len(payments)) = payments]_vars

\* a second payment matched to an invoice of 1000.00 half a unit above it,
\* with an earlier payment and another invoice in the tables
C14_Witness ==
  /\ request.op = "recordPayment"
  /\ Len(payments) = 2
  /\ Len(invoices) >= 2
  /\ payments[2].status = "matched"
  /\ payments[2].amount = 100000 - 50
  /\ invoices[payments[2].matchedInvoiceId].status = "paid"
  /\ invoices[payments[2].matchedInvoiceId].paidAmount = 100000 - 50
  /\ invoices[payments[2].matchedInvoiceId].paidDate = PaymentDate

\* invoice i is of the period of invoice j or of a later one
NotBefore(i, j) ==
  \/ invoices[i].year > invoices[j].year
  \/ invoices[i].year = invoices[j].year /\ invoices[i].month >= invoices[j].month

\* C15: when several invoices that are not paid satisfy the tolerance,
\* recordPayment matches the first of them in the order year descending,
\* month descending: the matched invoice is of the latest (year, month) that
\* any candidate has.
C15_LatestPeriodWins ==
  [][MatchFound =>
       /\ NewPayment.matchedInvoiceId \in Outstanding(request'.amount.v)
       /\ \A j \in Outstanding(request'.amount.v) :
            NotBefore(NewPayment.matchedInvoiceId, j)]_vars

\* a payment matched to the February invoice of a unit whose January invoice
\* of the same amount is still open
C15_Witness ==
  /\ request.op = "recordPayment"
  /\ Len(payments) = 1
  /\ payments[1].status = "matched"
  /\ invoices[payments[1].matchedInvoiceId].month = 2
  /\ \E j \in Ids(invoices) :
       /\ invoices[j].month = 1
       /\ invoices[j].year = invoices[payments[1].matchedInvoiceId].year
       /\ invoices[j].status = "unpaid"
       /\ invoices[j].amount = invoices[payments[1].matchedInvoiceId].amount

-----------------------------------------------------------------------------
(* Further properties of generateInvoices *)

\* the rows a step appended to table rent_invoices
NewInvoices == SubSeq(invoices', Len(invoices) + 1, Len(invoices'))

\* tenant t is active, not invoiced in the period, and its unit exists
Billable(t, month, year) ==
  /\ tenants[t].isActive = 1
  /\ ~\E i \in Ids(invoices) :
        /\ invoices[i].tenantId = t
        /\ invoices[i].month = month
        /\ invoices[i].year = year
  /\ tenants[t].unitId \in Ids(units)

-----------------------------------------------------------------------------
(* Further properties of payInvoice *)

\* C17: after a successful payInvoice the invoice's paidAmount is the
\* supplied paidAmount, for every supplied value in [0, amount], 0 included,
\* and the invoice's full amount when no paidAmount was supplied.
C17_PaidAmountStored ==
  (/\ request.op = "payInvoice"
   /\ request.id \in Ids(invoices)
   /\ response.status = 200)
  => invoices[request.id].paidAmount =
       IF request.paidAmount = Absent
       THEN invoices[request.id].amount
       ELSE request.paidAmount.v

-----------------------------------------------------------------------------
(* Further properties of the audit log *)

\* the five engines that write rent data
Engines ==
  {"generateInvoices", "payInvoice", "recordPayment", "reconstructHistory",
   "calculateSettlements"}

\* the step is a successful call of an engine that wrote to a table
EngineWrote ==
  /\ steps' = steps + 1
  /\ now' = now
  /\ request'.op \in Engines
  /\ response'.status \in {200, 201}
  /\ <<invoices', payments', settlements'>> # <<invoices, payments, settlements>>

\* C18: every successful call of generateInvoices, payInvoice,
\* recordPayment, reconstructHistory or calculateSettlements that writes to
\* the store appends at least one audit entry.
C18_EnginesAudited ==
  [][EngineWrote => Len(auditLogs') > Len(auditLogs)]_vars

-----------------------------------------------------------------------------
(* Further properties of reconstructHistory *)

\* the step is a call of reconstructHistory
Reconstructs ==
  /\ steps' = steps + 1
  /\ now' = now
  /\ request'.op = "reconstructHistory"

\* a body value that is there and reads as a number
Numeric(x) == x.kind \in {"number", "string"}

\* C19: reconstructHistory fails with NotFound (404) when the unit is
\* absent, and with InvalidInput (400) exactly when currentRent or
\* yearlyIncreasePercent is missing or not numeric; a failing call creates
\* no invoice and appends no audit entry.
C19_ReconstructFailures ==
  [][Reconstructs =>
       LET valid == /\ Numeric(request'.currentRent)
                    /\ Numeric(request'.yearlyIncreasePercent)
       IN /\ response'.status = 400 <=> ~valid
          /\ (valid /\ request'.unitId \notin Ids(units))
               => response'.status = 404
          /\ response'.status \in {400, 404}
               => invoices' = invoices /\ auditLogs' = auditLogs]_vars

\* the first month a reconstructHistory request asks for
RequestedStartMonth(r) ==
  IF Truthy(r.startMonth) THEN r.startMonth.v ELSE DefaultStartMonth

\* the first year a reconstructHistory request asks for
RequestedStart(r) ==
  IF Truthy(r.startYear) THEN r.startYear.v ELSE DefaultStartYear

\* period (y1, m1) is period (y2, m2) or an earlier one
UpTo(y1, m1, y2, m2) == y1 < y2 \/ (y1 = y2 /\ m1 <= m2)

\* C20: for a unit with a tenant and no invoice yet, reconstructHistory
\* creates exactly one invoice for each (month, year) from (startMonth,
\* startYear) through the current month and for no other period, each
\* unpaid, with paidAmount 0, isHistorical set and the rounded yearly rent
\* of its year as amount.
C20_ReconstructedPeriods ==
  [][(/\ Reconstructs
      /\ response'.status = 201
      /\ getTenantsByUnit(request'.unitId) # {}
      /\ \A i \in Ids(invoices) : invoices[i].unitId # request'.unitId)
     => LET r == request'
            new == NewInvoices
            Wanted(y, m) ==
              /\ UpTo(RequestedStart(r), RequestedStartMonth(r), y, m)
              /\ UpTo(y, m, now.year, now.month)
        IN /\ SubSeq(invoices', 1, Len(invoices)) = invoices
           /\ \A y \in (RequestedStart(r) - 1)..(now.year + 1) :
                \A m \in 1..MonthsPerYear :
                  Cardinality({k \in DOMAIN new :
                                 new[k].year = y /\ new[k].month = m})
                    = IF Wanted(y, m) THEN 1 ELSE 0
           /\ \A k \in DOMAIN new :
                /\ new[k].year \in RequestedStart(r)..now.year
                /\ new[k].month \in 1..MonthsPerYear
                /\ new[k].unitId = r.unitId
                /\ new[k].tenantId \in getTenantsByUnit(r.unitId)
                /\ new[k].status = "unpaid"
                /\ new[k].paidAmount = 0
                /\ new[k].isHistorical = 1
                /\ \E e \in DOMAIN response'.yearlyRents :
                     /\ response'.yearlyRents[e].year = new[k].year
                     /\ new[k].amount = response'.yearlyRents[e].rent * Scale]_vars

\* November 2014 through January 2016 reconstructed for unit 1: fifteen
\* invoices, the first of them for November 2014 at less than the last
C20_Witness ==
  /\ request.op = "reconstructHistory"
  /\ request.startYear = Num(2014)
  /\ request.startMonth = Num(11)
  /\ request.at.year = 2016 /\ request.at.month = 1
  /\ response.status = 201
  /\ response.generated = 15
  /\ Len(invoices) = 15
  /\ invoices[1].year = 2014 /\ invoices[1].month = 11
  /\ invoices[15].year = 2016 /\ invoices[15].month = 1
  /\ invoices[1].amount < invoices[15].amount
  /\ invoices[1].isHistorical = 1

\* C21: every invoice reconstructHistory creates for a unit is attributed to
\* an active tenant of the unit when it has one, otherwise to one of the
\* unit's tenants; for a unit without any tenant the call creates no invoice
\* and still succeeds.
C21_Attribution ==
  [][(/\ Reconstructs
      /\ Truthy(request'.currentRent)
      /\ Truthy(request'.yearlyIncreasePercent)
      /\ request'.unitId \in Ids(units))
     => LET unitId == request'.unitId
            all == {t \in Ids(tenants) : tenants[t].unitId = unitId}
            active == {t \in all : tenants[t].isActive = 1}
        IN /\ response'.status = 201
           /\ response'.generated = Len(NewInvoices)
           /\ \A k \in DOMAIN NewInvoices :
                /\ NewInvoices[k].tenantId \in all
                /\ active # {} => NewInvoices[k].tenantId \in active
           /\ all = {} => NewInvoices = <<>>]_vars

\* unit 1 reconstructed for its active tenant and not for its former one,
\* then unit 2, which has no tenant: answered 201 with nothing created
C21_Witness ==
  /\ request.op = "reconstructHistory"
  /\ request.unitId = 2
  /\ getTenantsByUnit(2) = {}
  /\ response.status = 201
  /\ response.generated = 0
  /\ invoices # <<>>
  /\ \A i \in Ids(invoices) :
       /\ invoices[i].unitId = 1
       /\ tenants[invoices[i].tenantId].isActive = 1
  /\ \E t \in getTenantsByUnit(1) : tenants[t].isActive = 0

-----------------------------------------------------------------------------
(* Generate calls racing each other *)

NextRace ==
  \/ \E c \in 1..MaxCalls : \E month \in {1, 2} :
       GenerateRead(c, Clerk, month, 2016)
  \/ \E c \in 1..MaxCalls : GenerateInsert(c)
  \/ \E c \in 1..MaxCalls : GenerateRespond(c)

SpecRace == InitLedger /\ [][NextRace]_vars

\* C22: under every interleaving of the reads and writes of generateInvoices
\* calls that run side by side for the same period, there is at most one
\* invoice per (tenantId, month, year).
C22_OnePerTenantPeriodRacing ==
  \A i \in Ids(invoices) :
    Cardinality({j \in Ids(invoices) :
                   /\ invoices[j].tenantId = invoices[i].tenantId
                   /\ invoices[j].month = invoices[i].month
                   /\ invoices[j].year = invoices[i].year}) = 1

-----------------------------------------------------------------------------
(* The life of an invoice's status *)

\* C23: an invoice's status becomes partial or late only in a payInvoice
\* step; generateInvoices and reconstructHistory only create invoices, all
\* unpaid, and change no status; recordPayment changes a status to paid only.
C23_StatusAuthority ==
  [][/\ \A i \in Ids(invoices) :
          (i \in Ids(invoices') /\ invoices'[i].status # invoices[i].status)
            => /\ request'.op \in {"payInvoice", "recordPayment"}
               /\ invoices'[i].status \in {"partial", "late"}
                    => request'.op = "payInvoice"
               /\ request'.op = "recordPayment"
                    => invoices'[i].status = "paid"
     /\ \A k \in DOMAIN NewInvoices :
          /\ request'.op \in {"generateInvoices", "reconstructHistory"}
          /\ NewInvoices[k].status = "unpaid"]_vars

\* an invoice generated unpaid, made partial by payInvoice, then paid by a
\* matched payment
C23_Witness ==
  /\ request.op = "recordPayment"
  /\ Len(payments) = 1
  /\ payments[1].status = "matched"
  /\ invoices[payments[1].matchedInvoiceId].status = "paid"
  /\ invoices[payments[1].matchedInvoiceId].isHistorical = 0
  /\ \E e \in Ids(auditLogs) :
       /\ auditLogs[e].action = "mark_payment"
       /\ auditLogs[e].recordId = payments[1].matchedInvoiceId
       /\ auditLogs[e].oldValue.status = "unpaid"
       /\ auditLogs[e].newValue.status = "partial"

\* the step is a call of payInvoice
Pays ==
  /\ steps' = steps + 1
  /\ now' = now
  /\ request'.op = "payInvoice"

\* C24: payInvoice on an absent invoice id fails with NotFound (404), and
\* every failing payInvoice, NotFound or InvalidAmount, leaves the status,
\* paidAmount, paidDate and paymentMethod of every invoice as they were and
\* appends no audit entry.
C24_FailedPayWritesNothing ==
  [][Pays =>
       /\ request'.id \notin Ids(invoices) => response'.status = 404
       /\ response'.status # 200 =>
            /\ response'.status \in {400, 404}
            /\ auditLogs' = auditLogs
            /\ Len(invoices') = Len(invoices)
            /\ \A i \in Ids(invoices) :
                 /\ invoices'[i].status = invoices[i].status
                 /\ invoices'[i].paidAmount = invoices[i].paidAmount
                 /\ invoices'[i].paidDate = invoices[i].paidDate
                 /\ invoices'[i].paymentMethod = invoices[i].paymentMethod]_vars

\* a payment on invoice 9, which does not exist, answered 404 after a part
\* payment of invoice 1 that left one audit entry and a partial invoice
C24_Witness ==
  /\ request.op = "payInvoice"
  /\ request.id \notin Ids(invoices)
  /\ response.status = 404
  /\ Len(auditLogs) = 1
  /\ auditLogs[1].action = "mark_payment"
  /\ \E i \in Ids(invoices) :
       invoices[i].status = "partial" /\ invoices[i].paidAmount > 0

\* C25: recordPayment never matches a payment to an invoice whose rent is
\* already collected in full (paidAmount at least the amount, as with status
\* late): the matched invoice still has money outstanding.
C25_MatchesOutstandingOnly ==
  [][(/\ request'.op = "recordPayment"
      /\ Len(payments') = Len(payments) + 1
      /\ NewPayment.status = "matched")
     => /\ NewPayment.matchedInvoiceId \in Ids(invoices)
        /\ invoices[NewPayment.matchedInvoiceId].paidAmount
             < invoices[NewPayment.matchedInvoiceId].amount]_vars

\* C26: in every state reached through generateInvoices, payInvoice,
\* recordPayment and reconstructHistory, every invoice has
\* 0 <= paidAmount <= amount.
C26_PaidWithinBilled ==
  \A i \in Ids(invoices) :
    0 <= invoices[i].paidAmount /\ invoices[i].paidAmount <= invoices[i].amount

\* C27: in every reachable state each invoice's status agrees with its
\* amounts: unpaid implies paidAmount = 0, partial implies paidAmount < amount,
\* paid or late implies paidAmount >= amount.
C27_StatusAgreesWithAmounts ==
  \A i \in Ids(invoices) :
    /\ invoices[i].status = "unpaid" => invoices[i].paidAmount = 0
    /\ invoices[i].status = "partial" => invoices[i].paidAmount < invoices[i].amount
    /\ invoices[i].status \in {"paid", "late"}
         => invoices[i].paidAmount >= invoices[i].amount

-----------------------------------------------------------------------------
(* Payments against a month that is already billed *)

\* the rows POST /api/invoices/generate inserts into an empty rent_invoices
BilledRows(month, year) ==
  LET order == Ascending({t \in Ids(tenants) :
                            /\ tenants[t].isActive = 1
                            /\ tenants[t].unitId \in Ids(units)})
  IN [k \in 1..Len(order) |->
        LET t == order[k]
        IN InvoiceRow(t, tenants[t].unitId, month, year,
                      units[tenants[t].unitId].monthlyRent,
                      Receipt("INV", year, month, t), 0)]

\* the ledger as a generate request for January 2016 leaves it
InitBilled ==
  /\ units = UnitRows
  /\ tenants \in TenantWorlds
  /\ properties = PropertyRows
  /\ propertyUsers = PropertyUserRows
  /\ invoices = BilledRows(1, 2016)
  /\ payments = <<>>
  /\ settlements = <<>>
  /\ auditLogs = <<>>
  /\ now \in InitClocks
  /\ request = [op |-> "generateInvoices", user |-> Clerk,
                month |-> Num(1), year |-> Num(2016)]
  /\ response = [status |-> 201, generated |-> Len(invoices),
                 invoices |-> Ids(invoices)]
  /\ steps = 0
  /\ inFlight = [c \in 1..MaxCalls |-> Idle]

NextMatch ==
  \/ \E id \in PayIds : \E in \in PayInputs(AmountOf(id)) :
       PayInvoice(Clerk, id, in[1], in[2])
  \/ \E in \in PaymentInputs, match \in Ids(invoices) \cup {NoId} :
       RecordPayment(Clerk, in[1], PaymentDate, in[2], match)

SpecMatch == InitBilled /\ [][NextMatch]_vars

\* C28: after any sequence of recordPayment and payInvoice operations no two
\* payments with status matched have the same matchedInvoiceId.
C28_OnePaymentPerInvoice ==
  \A p, q \in Ids(payments) :
    (/\ payments[p].status = "matched"
     /\ payments[q].status = "matched"
     /\ payments[p].matchedInvoiceId = payments[q].matchedInvoiceId)
      => p = q

\* C29: once an invoice has been collected in full (status paid or late, the
\* whole amount received), no later payInvoice or recordPayment lowers its
\* paidAmount or moves its status back to partial or unpaid.
C29_CollectedStaysCollected ==
  [][\A i \in Ids(invoices) :
       (/\ invoices[i].status \in {"paid", "late"}
        /\ invoices[i].paidAmount >= invoices[i].amount)
         => /\ invoices'[i].paidAmount >= invoices[i].paidAmount
            /\ invoices'[i].status \notin {"partial", "unpaid"}]_vars

\* C30: a PropertyUser row's status changes from pending to approved only
\* through a request made by a super_admin or by an approved property_owner of
\* that same property.
C30_ApprovedByOwnerOnly ==
  [][\A p \in Ids(propertyUsers) :
       (/\ propertyUsers[p].status = "pending"
        /\ propertyUsers'[p].status = "approved")
         => userIsPropertyOwner(request'.user, users[request'.user].role,
                                propertyUsers[p].propertyId)]_vars

====
